---------------------------- MODULE Spec2Model ----------------------------
(***************************************************************************)
(* Model of the adaptive gas-limit controller of                           *)
(* chain/chain/src/gas_limit_adjustment.rs: the three strategies           *)
(* determine_new_gas_limit, determine_new_gas_limit_2 and                  *)
(* determine_new_gas_limit_3, the bucket lookup get_bucket and the         *)
(* snapshot read get_apply_chunk_time_histogram.                           *)
(*                                                                         *)
(* Representation of the Rust values:                                      *)
(*  - u64 (gas_limit): the full 64 bits, as a tuple of four 16-bit limbs,  *)
(*    least significant first (TLC's own integers are 32 bits wide).       *)
(*  - f64 seconds (bucket bounds, apply times): the integer number of      *)
(*    nanoseconds.  Every value the code compares lies on that grid        *)
(*    (Duration has nanosecond resolution) and f64 rounding is monotone    *)
(*    and far finer than 1ns in the range used, so the comparisons agree.  *)
(*  - f64 ratios (count as f64 / count as f64): the pair [num, den], with  *)
(*    den = 0 giving NaN (0/0) or +inf (n/0) as IEEE-754 division does.    *)
(*    Exact for counts below 2^53 whose ratio is not within 1e-16 of a     *)
(*    threshold without being equal to it.                                 *)
(*  - a panic (panic!, expect, assert!, arithmetic overflow in a build     *)
(*    with overflow checks) is an outcome with tag "panic".                *)
(***************************************************************************)
EXTENDS Integers, Sequences, FiniteSets, TLC

VARIABLES
    gas_limit,        \* the shard's current gas limit (u64), fed back into the next decision
    start_limit,      \* history: the gas limit the run started from
    height,           \* the block height of the next decision
    calls,            \* history: number of decisions taken so far
    overflow_checks,  \* build profile: TRUE if u64 overflow panics, FALSE if it wraps
    crashed,          \* TRUE once a call has panicked
    last,             \* history: the inputs and the outcome of the last call
    metric,           \* APPLYING_CHUNKS_TIME for the shard: the live histogram
    pc,               \* position of the controller inside a decision (SpecConc)
    histogram,        \* local `histogram` of the running decision (the snapshot)
    bucket_noop,      \* local `bucket_noop` of the running decision
    bucket            \* local `bucket` / `target_bucket` of the running decision

vars == <<gas_limit, start_limit, height, calls, overflow_checks, crashed, last,
          metric, pc, histogram, bucket_noop, bucket>>

-----------------------------------------------------------------------------
(* Bounds of the model. *)

\* Decisions per run.
MaxCalls == 3
\* Samples the producers append to the live histogram (SpecConc).
MaxSamples == 3

-----------------------------------------------------------------------------
(* u64 arithmetic on four 16-bit limbs. *)

LIMB_BASE == 65536

U64FromInt(n) == <<n % LIMB_BASE, n \div LIMB_BASE, 0, 0>>

U64_ZERO == <<0, 0, 0, 0>>
U64_MAX == <<LIMB_BASE - 1, LIMB_BASE - 1, LIMB_BASE - 1, LIMB_BASE - 1>>

\* x < y on u64.
U64Less(x, y) ==
    \/ x[4] < y[4]
    \/ x[4] = y[4] /\ x[3] < y[3]
    \/ x[4] = y[4] /\ x[3] = y[3] /\ x[2] < y[2]
    \/ x[4] = y[4] /\ x[3] = y[3] /\ x[2] = y[2] /\ x[1] < y[1]

\* x + y: the low 64 bits and the carry out of bit 63.
U64AddCarry(x, y) ==
    LET s1 == x[1] + y[1]
        s2 == x[2] + y[2] + (s1 \div LIMB_BASE)
        s3 == x[3] + y[3] + (s2 \div LIMB_BASE)
        s4 == x[4] + y[4] + (s3 \div LIMB_BASE)
    IN  [val |-> <<s1 % LIMB_BASE, s2 % LIMB_BASE, s3 % LIMB_BASE, s4 % LIMB_BASE>>,
         carry |-> s4 \div LIMB_BASE]

\* x - y: the low 64 bits and the borrow out of bit 63.
U64SubBorrow(x, y) ==
    LET d1 == x[1] - y[1]
        b1 == IF d1 < 0 THEN 1 ELSE 0
        d2 == x[2] - y[2] - b1
        b2 == IF d2 < 0 THEN 1 ELSE 0
        d3 == x[3] - y[3] - b2
        b3 == IF d3 < 0 THEN 1 ELSE 0
        d4 == x[4] - y[4] - b3
        b4 == IF d4 < 0 THEN 1 ELSE 0
    IN  [val |-> <<d1 + b1 * LIMB_BASE, d2 + b2 * LIMB_BASE,
                   d3 + b3 * LIMB_BASE, d4 + b4 * LIMB_BASE>>,
         carry |-> b4]

\* x / d on u64, truncating, for a divisor 0 < d < 2^15 (schoolbook long division).
U64Div(x, d) ==
    LET c4 == x[4]
        c3 == (c4 % d) * LIMB_BASE + x[3]
        c2 == (c3 % d) * LIMB_BASE + x[2]
        c1 == (c2 % d) * LIMB_BASE + x[1]
    IN  <<c1 \div d, c2 \div d, c3 \div d, c4 \div d>>

-----------------------------------------------------------------------------
(* Outcomes of a call: a returned value or a panic. *)

Ok(v) == [tag |-> "ok", value |-> v, msg |-> ""]
Panic(m) == [tag |-> "panic", value |-> U64_ZERO, msg |-> m]

MSG_UNSUPPORTED == "can't handle arbitrary upper bounds yet"
MSG_MORE_BUCKETS == "histogram should have more buckets"
MSG_WRONG_BUCKET == "got wrong bucket"
MSG_OVERFLOW == "attempt to add with overflow"
MSG_UNDERFLOW == "attempt to subtract with overflow"

\* `a + b` on u64: panics in a build with overflow checks, wraps otherwise.
U64Add(a, b, oc) ==
    LET s == U64AddCarry(a, b)
    IN  IF s.carry = 1 /\ oc THEN Panic(MSG_OVERFLOW) ELSE Ok(s.val)

\* `a - b` on u64: panics in a build with overflow checks, wraps otherwise.
U64Sub(a, b, oc) ==
    LET s == U64SubBorrow(a, b)
    IN  IF s.carry = 1 /\ oc THEN Panic(MSG_UNDERFLOW) ELSE Ok(s.val)

-----------------------------------------------------------------------------
(* Constants of the controller.  Seconds are in nanoseconds, thresholds in *)
(* hundredths.                                                             *)

NANOS_PER_SEC == 1000000000

GAS_LIMIT_ADJUSTMENT_FACTOR == 1000
GAS_LIMIT_ADJUSTMENT_INTERVAL == 10
NOOP_CHUNK_APPLY_TIME == 500000000
TARGET_CHUNK_APPLY_TIME == 1000000000
TARGET_BACKOFF == 50000000
LOAD_INDICATION_APPLY_TIME == 500000000
THRESHOLD_NOOP == 50
THRESHOLD_INCREASE == 99
THRESHOLD_DECREASE == 99
THRESHOLD_SCALE == 100

\* The upper bounds get_bucket knows, with the index it hardcodes for each.
BOUND_005 == 50000000
BOUND_05 == 500000000
BOUND_10 == 1000000000
BOUND_13 == 1300000000

-----------------------------------------------------------------------------
(* f64. *)

Abs(x) == IF x < 0 THEN -x ELSE x

\* `d < f64::EPSILON` for a difference d of two values on the nanosecond grid:
\* EPSILON is 2.2e-16 s, below one grid step, so the test is d <= 0.
LtEpsilon(d) == d <= 0

\* `a as f64 / b as f64`.
F64Div(a, b) == [num |-> a, den |-> b]

\* r < t / THRESHOLD_SCALE: false for NaN and for +inf.
F64Lt_NaNAsZero(r, t) ==
    IF r.den = 0 THEN 0 < t ELSE r.num * THRESHOLD_SCALE < t * r.den
F64Lt(r, t) ==
    IF r.den = 0 THEN FALSE ELSE r.num * THRESHOLD_SCALE < t * r.den

\* r > t / THRESHOLD_SCALE: false for NaN, true for +inf.
F64Gt(r, t) ==
    IF r.den = 0 THEN r.num > 0 ELSE r.num * THRESHOLD_SCALE > t * r.den

\* r >= t / THRESHOLD_SCALE: false for NaN, true for +inf.
F64Ge(r, t) ==
    IF r.den = 0 THEN r.num > 0 ELSE r.num * THRESHOLD_SCALE >= t * r.den

\* Duration::as_secs_f64.
as_secs_f64(d) == d.secs * NANOS_PER_SEC + d.nanos


-----------------------------------------------------------------------------
(* The histogram of chunk apply times (prometheus::proto::Histogram).        *)

\* Upper bounds of APPLYING_CHUNKS_TIME's buckets, in bucket order.  get_bucket
\* expects 0.05 at index 2, 0.5 at index 5, 1.0 at index 6 and 1.3 at index 7
\* (indices from 0; a TLA+ sequence counts from 1).
BUCKET_UPPER_BOUNDS ==
    <<10000000, 25000000, BOUND_005, 100000000, 250000000, BOUND_05, BOUND_10, BOUND_13>>

Bucket(ub, cc) == [upper_bound |-> ub, cumulative_count |-> cc]
NoBucket == Bucket(0, 0)

MkHistogram(bounds, counts, total) ==
    [bucket |-> [i \in 1..Len(bounds) |-> Bucket(bounds[i], counts[i])],
     sample_count |-> total]

NoHistogram == [bucket |-> <<>>, sample_count |-> 0]

\* The histogram after construction: no samples.
EmptyHistogram == MkHistogram(BUCKET_UPPER_BOUNDS, [i \in 1..8 |-> 0], 0)

\* Histogram::observe(v): one more sample, counted in every bucket whose upper
\* bound is at least v (the counts are cumulative).
observe(h, v) ==
    [bucket |-> [i \in 1..Len(h.bucket) |->
                    IF v <= h.bucket[i].upper_bound
                    THEN Bucket(h.bucket[i].upper_bound, h.bucket[i].cumulative_count + 1)
                    ELSE h.bucket[i]],
     sample_count |-> h.sample_count + 1]

\* The clone of the shard's histogram that collect() hands out.
get_apply_chunk_time_histogram(m) == m

-----------------------------------------------------------------------------
(* get_bucket *)

BucketOk(b) == [tag |-> "ok", bucket |-> b, msg |-> ""]
BucketPanic(m) == [tag |-> "panic", bucket |-> NoBucket, msg |-> m]

\* The `match upper_bound` of get_bucket: the first arm whose guard holds;
\* -1 stands for the panicking default arm.
bucket_index(upper_bound) ==
    IF LtEpsilon(Abs(upper_bound) - BOUND_005) THEN 2
    ELSE IF LtEpsilon(Abs(upper_bound) - BOUND_05) THEN 5
    ELSE IF LtEpsilon(Abs(upper_bound) - BOUND_10) THEN 6
    ELSE IF LtEpsilon(Abs(upper_bound) - BOUND_13) THEN 7
    ELSE -1

get_bucket(h, upper_bound) ==
    LET idx == bucket_index(upper_bound)
    IN  IF idx < 0 THEN BucketPanic(MSG_UNSUPPORTED)
        ELSE IF idx + 1 > Len(h.bucket) THEN BucketPanic(MSG_MORE_BUCKETS)
        ELSE LET b == h.bucket[idx + 1]
             IN  IF LtEpsilon(Abs(b.upper_bound) - upper_bound)
                 THEN BucketOk(b)
                 ELSE BucketPanic(MSG_WRONG_BUCKET)

-----------------------------------------------------------------------------
(* The three strategies. *)

\* gas_limit - gas_limit / GAS_LIMIT_ADJUSTMENT_FACTOR
decrease(limit, oc) == U64Sub(limit, U64Div(limit, GAS_LIMIT_ADJUSTMENT_FACTOR), oc)

\* gas_limit + gas_limit / GAS_LIMIT_ADJUSTMENT_FACTOR
increase(limit, oc) == U64Add(limit, U64Div(limit, GAS_LIMIT_ADJUSTMENT_FACTOR), oc)

\* The gate of determine_new_gas_limit: TRUE if the height is passed through.
skip_adjustment_inverted(h) == h % GAS_LIMIT_ADJUSTMENT_INTERVAL = 0
skip_adjustment(h) == h % GAS_LIMIT_ADJUSTMENT_INTERVAL # 0

\* The decision of determine_new_gas_limit from its two ratios.
decide_periodic(limit, ratio_noop, ratio_within_target, oc) ==
    IF F64Lt(ratio_within_target, THRESHOLD_DECREASE) THEN decrease(limit, oc)
    ELSE IF F64Lt(ratio_noop, THRESHOLD_NOOP)
         THEN IF F64Ge(ratio_within_target, THRESHOLD_INCREASE)
              THEN increase(limit, oc)
              ELSE Ok(limit)
         ELSE Ok(limit)

\* The decision of determine_new_gas_limit_2 from its ratio and the backlog.
decide_backlog(limit, ratio_in_target, delayed_receipt_gas, oc) ==
    IF F64Lt(ratio_in_target, THRESHOLD_DECREASE) THEN decrease(limit, oc)
    ELSE IF F64Gt(ratio_in_target, THRESHOLD_INCREASE) /\ delayed_receipt_gas > 0
         THEN increase(limit, oc)
         ELSE Ok(limit)

determine_new_gas_limit(limit, h, ht, oc) ==
    IF skip_adjustment(ht) THEN Ok(limit)
    ELSE LET bn == get_bucket(h, NOOP_CHUNK_APPLY_TIME)
             b == get_bucket(h, TARGET_CHUNK_APPLY_TIME)
         IN  IF bn.tag = "panic" THEN Panic(bn.msg)
             ELSE IF b.tag = "panic" THEN Panic(b.msg)
             ELSE decide_periodic(limit,
                                  F64Div(bn.bucket.cumulative_count, h.sample_count),
                                  F64Div(b.bucket.cumulative_count, h.sample_count),
                                  oc)

determine_new_gas_limit_2(limit, h, delayed_receipt_gas, oc) ==
    LET b == get_bucket(h, TARGET_CHUNK_APPLY_TIME)
    IN  IF b.tag = "panic" THEN Panic(b.msg)
        ELSE decide_backlog(limit,
                            F64Div(b.bucket.cumulative_count, h.sample_count),
                            delayed_receipt_gas, oc)

determine_new_gas_limit_3(limit, delayed_receipt_gas, last_apply_time, oc) ==
    LET last_apply_secs == as_secs_f64(last_apply_time)
    IN  IF last_apply_secs > TARGET_CHUNK_APPLY_TIME THEN decrease(limit, oc)
        ELSE IF /\ last_apply_secs > LOAD_INDICATION_APPLY_TIME
                /\ last_apply_secs <= TARGET_CHUNK_APPLY_TIME - TARGET_BACKOFF
             THEN IF delayed_receipt_gas > 0 THEN increase(limit, oc) ELSE Ok(limit)
             ELSE Ok(limit)

-----------------------------------------------------------------------------
(* Inputs. *)

\* Gas limits a run starts from: 1, the values around the adjustment factor,
\* the limit of the spec's scenarios, the largest limit whose increase still
\* fits in 64 bits (18428315757951600015), the next one, whose increase is
\* exactly 2^64 (18428315757951600016), and u64::MAX.
LIMIT_SCENARIO == U64FromInt(1000000000)
LIMIT_LAST_FIT == <<17807, 24944, 34699, 65470>>
LIMIT_WRAPS_TO_ZERO == <<17808, 24944, 34699, 65470>>

StartLimits ==
    { U64FromInt(1), U64FromInt(GAS_LIMIT_ADJUSTMENT_FACTOR - 1),
      U64FromInt(GAS_LIMIT_ADJUSTMENT_FACTOR), U64FromInt(GAS_LIMIT_ADJUSTMENT_FACTOR + 1),
      U64FromInt(2 * GAS_LIMIT_ADJUSTMENT_FACTOR), LIMIT_SCENARIO,
      LIMIT_LAST_FIT, LIMIT_WRAPS_TO_ZERO, U64_MAX }

\* Heights a run starts from: just before and at a multiple of the interval.
StartHeights == {GAS_LIMIT_ADJUSTMENT_INTERVAL - 1, GAS_LIMIT_ADJUSTMENT_INTERVAL}

\* A histogram with the expected layout: n[k] samples at or below the bounds
\* 0.05, 0.5, 1.0 and 1.3, out of total.
Samples(n005, n05, n10, n13, total) ==
    MkHistogram(BUCKET_UPPER_BOUNDS, <<0, 0, n005, n005, n005, n05, n10, n13>>, total)

WellFormedHistograms ==
    { EmptyHistogram,
      Samples(1, 1, 1, 1, 1),
      Samples(10, 40, 90, 95, 100),
      Samples(10, 40, 99, 100, 100),
      Samples(10, 40, 100, 100, 100),
      Samples(10, 49, 98, 100, 100),
      Samples(10, 50, 99, 100, 100),
      Samples(10, 50, 100, 100, 100),
      Samples(20, 120, 199, 200, 200) }

\* A histogram of another layout: too few buckets.
ShortHistogram ==
    MkHistogram(<<10000000, 25000000, BOUND_005>>, <<0, 0, 10>>, 100)

Histograms == WellFormedHistograms \cup {ShortHistogram}

\* Histograms handed to get_bucket on its own.
LookupHistograms == {EmptyHistogram, Samples(10, 40, 99, 100, 100)}

WellFormed(h) ==
    /\ Len(h.bucket) = Len(BUCKET_UPPER_BOUNDS)
    /\ \A i \in 1..Len(h.bucket) : h.bucket[i].upper_bound = BUCKET_UPPER_BOUNDS[i]

Count(h, idx) == h.bucket[idx + 1].cumulative_count

Duration(s, n) == [secs |-> s, nanos |-> n]
NoDuration == Duration(0, 0)

Durations ==
    { Duration(0, 0), Duration(0, 400000000), Duration(0, 500000000),
      Duration(0, 500000001), Duration(0, 700000000), Duration(0, 950000000),
      Duration(0, 950000001), Duration(0, 960000000), Duration(1, 0),
      Duration(1, 1), Duration(1, 500000000) }

\* delayed_receipt_gas (u128): only compared with 0.
BacklogGas == {0, 1}

\* Upper bounds asked of get_bucket.
UpperBounds ==
    { -500000000, 0, 30000000, BOUND_005, BOUND_005 + 1, BOUND_05, 770000000,
      800000000, BOUND_10, BOUND_13, BOUND_13 + 1, 2000000000 }

SupportedBounds == {BOUND_005, BOUND_05, BOUND_10, BOUND_13}

-----------------------------------------------------------------------------
(* State machine of sequential calls. *)

NoCall ==
    [fn |-> "none", gas_limit |-> U64_ZERO, histogram |-> NoHistogram, height |-> 0,
     delayed_receipt_gas |-> 0, last_apply_time |-> NoDuration, upper_bound |-> 0,
     outcome |-> Ok(U64_ZERO), bucket |-> BucketOk(NoBucket), ratios |-> <<>>]

ConcIdle ==
    /\ metric = EmptyHistogram
    /\ pc = "idle"
    /\ histogram = NoHistogram
    /\ bucket_noop = NoBucket
    /\ bucket = NoBucket

Init ==
    /\ gas_limit \in StartLimits
    /\ start_limit = gas_limit
    /\ height \in StartHeights
    /\ calls = 0
    /\ overflow_checks \in BOOLEAN
    /\ crashed = FALSE
    /\ last = NoCall
    /\ ConcIdle

\* The caller's use of a decision: the returned limit becomes the shard's
\* limit for the next height; a panic ends the process.
Return(outcome) ==
    /\ gas_limit' = IF outcome.tag = "ok" THEN outcome.value ELSE gas_limit
    /\ crashed' = (outcome.tag = "panic")
    /\ height' = height + 1
    /\ calls' = calls + 1
    /\ UNCHANGED <<start_limit, overflow_checks>>

CanDecide == ~crashed /\ calls < MaxCalls /\ pc = "idle"

DecideA ==
    /\ CanDecide
    /\ \E h \in Histograms :
          LET outcome == determine_new_gas_limit(gas_limit, h, height, overflow_checks)
          IN  /\ last' = [NoCall EXCEPT !.fn = "A", !.gas_limit = gas_limit,
                                        !.histogram = h, !.height = height,
                                        !.outcome = outcome]
              /\ Return(outcome)
    /\ UNCHANGED <<metric, pc, histogram, bucket_noop, bucket>>

DecideB ==
    /\ CanDecide
    /\ \E h \in Histograms, g \in BacklogGas :
          LET outcome == determine_new_gas_limit_2(gas_limit, h, g, overflow_checks)
          IN  /\ last' = [NoCall EXCEPT !.fn = "B", !.gas_limit = gas_limit,
                                        !.histogram = h, !.height = height,
                                        !.delayed_receipt_gas = g,
                                        !.outcome = outcome]
              /\ Return(outcome)
    /\ UNCHANGED <<metric, pc, histogram, bucket_noop, bucket>>

DecideC ==
    /\ CanDecide
    /\ \E g \in BacklogGas, d \in Durations :
          LET outcome == determine_new_gas_limit_3(gas_limit, g, d, overflow_checks)
          IN  /\ last' = [NoCall EXCEPT !.fn = "C", !.gas_limit = gas_limit,
                                        !.height = height,
                                        !.delayed_receipt_gas = g,
                                        !.last_apply_time = d,
                                        !.outcome = outcome]
              /\ Return(outcome)
    /\ UNCHANGED <<metric, pc, histogram, bucket_noop, bucket>>

\* A lookup on its own, for any requested bound.
LookupBucket ==
    /\ ~crashed /\ pc = "idle"
    /\ \E h \in LookupHistograms, ub \in UpperBounds :
          LET r == get_bucket(h, ub)
          IN  /\ last' = [NoCall EXCEPT !.fn = "get_bucket", !.histogram = h,
                                        !.upper_bound = ub, !.bucket = r]
              /\ crashed' = (r.tag = "panic")
    /\ UNCHANGED <<gas_limit, start_limit, height, calls, overflow_checks,
                   metric, pc, histogram, bucket_noop, bucket>>

Next == DecideA \/ DecideB \/ DecideC

Spec == Init /\ [][Next]_vars

\* get_bucket called on its own, over all its inputs.
NextLookup == LookupBucket

SpecLookup == Init /\ [][NextLookup]_vars

-----------------------------------------------------------------------------
(* One decision step by step, while the producers append samples to the    *)
(* shard's histogram.  pc names the line the controller is about to run.    *)

\* Apply times the producers record: 0.3s, 0.8s and 1.5s.
ApplyTimes == {300000000, 800000000, 1500000000}

InitConc ==
    /\ gas_limit = LIMIT_SCENARIO
    /\ start_limit = gas_limit
    /\ height \in StartHeights
    /\ calls = 0
    /\ overflow_checks = TRUE
    /\ crashed = FALSE
    /\ last = NoCall
    /\ ConcIdle

\* A producer records the apply time of a chunk.
ConcObserve ==
    /\ ~crashed
    /\ metric.sample_count < MaxSamples
    /\ \E v \in ApplyTimes : metric' = observe(metric, v)
    /\ UNCHANGED <<gas_limit, start_limit, height, calls, overflow_checks, crashed,
                   last, pc, histogram, bucket_noop, bucket>>

ConcLocalsReset ==
    /\ pc' = "idle"
    /\ histogram' = NoHistogram
    /\ bucket_noop' = NoBucket
    /\ bucket' = NoBucket

\* A panic inside a running decision.
ConcPanic(fn, m) ==
    /\ last' = [NoCall EXCEPT !.fn = fn, !.gas_limit = gas_limit,
                              !.histogram = histogram, !.height = height,
                              !.outcome = Panic(m)]
    /\ Return(Panic(m))
    /\ ConcLocalsReset

\* determine_new_gas_limit is called: the gate, then the snapshot.
ConcCallA ==
    /\ CanDecide
    /\ IF skip_adjustment(height)
       THEN /\ last' = [NoCall EXCEPT !.fn = "A", !.gas_limit = gas_limit,
                                      !.height = height, !.outcome = Ok(gas_limit)]
            /\ Return(Ok(gas_limit))
            /\ UNCHANGED <<pc, histogram>>
       ELSE /\ histogram' = get_apply_chunk_time_histogram(metric)
            /\ pc' = "A48"
            /\ UNCHANGED <<gas_limit, start_limit, height, calls, overflow_checks,
                           crashed, last>>
    /\ UNCHANGED <<metric, bucket_noop, bucket>>

\* determine_new_gas_limit_2 is called: the snapshot.
ConcCallB ==
    /\ CanDecide
    /\ histogram' = get_apply_chunk_time_histogram(metric)
    /\ pc' = "B85"
    /\ UNCHANGED <<gas_limit, start_limit, height, calls, overflow_checks, crashed,
                   last, metric, bucket_noop, bucket>>

\* let bucket_noop = get_bucket(&histogram, NOOP_CHUNK_APPLY_TIME);
ConcBucketNoop_Live ==
    /\ pc = "A48"
    /\ LET r == get_bucket(metric, NOOP_CHUNK_APPLY_TIME)
       IN  IF r.tag = "panic"
           THEN ConcPanic("A", r.msg) /\ UNCHANGED metric
           ELSE /\ bucket_noop' = r.bucket
                /\ pc' = "A51"
                /\ UNCHANGED <<gas_limit, start_limit, height, calls, overflow_checks,
                               crashed, last, metric, histogram, bucket>>
ConcBucketNoop ==
    /\ pc = "A48"
    /\ LET r == get_bucket(histogram, NOOP_CHUNK_APPLY_TIME)
       IN  IF r.tag = "panic"
           THEN ConcPanic("A", r.msg) /\ UNCHANGED metric
           ELSE /\ bucket_noop' = r.bucket
                /\ pc' = "A51"
                /\ UNCHANGED <<gas_limit, start_limit, height, calls, overflow_checks,
                               crashed, last, metric, histogram, bucket>>

\* let bucket = get_bucket(&histogram, TARGET_CHUNK_APPLY_TIME);
ConcBucketTarget ==
    /\ pc \in {"A51", "B85"}
    /\ LET r == get_bucket(histogram, TARGET_CHUNK_APPLY_TIME)
       IN  IF r.tag = "panic"
           THEN ConcPanic(IF pc = "A51" THEN "A" ELSE "B", r.msg) /\ UNCHANGED metric
           ELSE /\ bucket' = r.bucket
                /\ pc' = IF pc = "A51" THEN "A53" ELSE "B87"
                /\ UNCHANGED <<gas_limit, start_limit, height, calls, overflow_checks,
                               crashed, last, metric, histogram, bucket_noop>>

\* The ratios and the decision of determine_new_gas_limit.
ConcFinishA ==
    /\ pc = "A53"
    /\ LET ratio_noop == F64Div(bucket_noop.cumulative_count, histogram.sample_count)
           ratio_within_target == F64Div(bucket.cumulative_count, histogram.sample_count)
           outcome == decide_periodic(gas_limit, ratio_noop, ratio_within_target,
                                      overflow_checks)
       IN  /\ last' = [NoCall EXCEPT !.fn = "A", !.gas_limit = gas_limit,
                                     !.histogram = histogram, !.height = height,
                                     !.outcome = outcome,
                                     !.ratios = <<ratio_noop, ratio_within_target>>]
           /\ Return(outcome)
    /\ ConcLocalsReset
    /\ UNCHANGED metric

\* The ratio and the decision of determine_new_gas_limit_2.
ConcFinishB ==
    /\ pc = "B87"
    /\ \E g \in BacklogGas :
          LET ratio_in_target == F64Div(bucket.cumulative_count, histogram.sample_count)
              outcome == decide_backlog(gas_limit, ratio_in_target, g, overflow_checks)
          IN  /\ last' = [NoCall EXCEPT !.fn = "B", !.gas_limit = gas_limit,
                                        !.histogram = histogram, !.height = height,
                                        !.delayed_receipt_gas = g,
                                        !.outcome = outcome,
                                        !.ratios = <<ratio_in_target>>]
              /\ Return(outcome)
    /\ ConcLocalsReset
    /\ UNCHANGED metric

NextConc ==
    \/ ConcObserve
    \/ ConcCallA
    \/ ConcCallB
    \/ ConcBucketNoop
    \/ ConcBucketTarget
    \/ ConcFinishA
    \/ ConcFinishB

SpecConc == InitConc /\ [][NextConc]_vars

-----------------------------------------------------------------------------
(* Properties. `last` holds the inputs and the outcome of the call that led *)
(* to the current state; the relations below are over the integers, not     *)
(* over u64.                                                                *)

IsDecision == last.fn \in {"A", "B", "C"}
Returned == last.outcome.tag = "ok"

AdjustmentStep(old) == U64Div(old, GAS_LIMIT_ADJUSTMENT_FACTOR)

\* new = old + old / GAS_LIMIT_ADJUSTMENT_FACTOR
IsIncreaseOf(new, old) ==
    LET s == U64AddCarry(old, AdjustmentStep(old)) IN s.carry = 0 /\ s.val = new

\* new = old - old / GAS_LIMIT_ADJUSTMENT_FACTOR
IsDecreaseOf(new, old) ==
    LET s == U64SubBorrow(old, AdjustmentStep(old)) IN s.carry = 0 /\ s.val = new

\* old + old / GAS_LIMIT_ADJUSTMENT_FACTOR fits in 64 bits.
IncreaseFits(old) == U64AddCarry(old, AdjustmentStep(old)).carry = 0

BelowFactor(x) == U64Less(x, U64FromInt(GAS_LIMIT_ADJUSTMENT_FACTOR))

\* C1: started from a gas limit > 0, after any sequence of decisions of the
\* three strategies, fed any signals, the gas limit is > 0.
C1_GasLimitPositive ==
    gas_limit # U64_ZERO

\* C2: a call of a strategy that returns, returns the limit unchanged, or
\* increased by exactly limit / GAS_LIMIT_ADJUSTMENT_FACTOR, or decreased by
\* exactly that, for every limit of the u64 range.
C2_StepBound ==
    (IsDecision /\ Returned) =>
        \/ last.outcome.value = last.gas_limit
        \/ IsIncreaseOf(last.outcome.value, last.gas_limit)
        \/ IsDecreaseOf(last.outcome.value, last.gas_limit)

\* C3: at a height that is no multiple of GAS_LIMIT_ADJUSTMENT_INTERVAL,
\* determine_new_gas_limit returns its input limit whatever the histogram holds
\* (an empty one or one of another layout included), so the shard's limit
\* changes under this strategy only at multiples of the interval.
C3_GatePurity ==
    (last.fn = "A" /\ last.height % 10 # 0) =>
        /\ Returned
        /\ last.outcome.value = last.gas_limit
        /\ gas_limit = last.gas_limit

\* C3's case: a call between two multiples of 10 on a histogram of another
\* layout, which a gated height would not get past.
C3_Witness ==
    /\ last.fn = "A"
    /\ last.height % 10 # 0
    /\ ~WellFormed(last.histogram)
    /\ get_bucket(last.histogram, TARGET_CHUNK_APPLY_TIME).tag = "panic"
    /\ ~BelowFactor(last.gas_limit)

\* C4: on a histogram of the expected layout with no samples,
\* determine_new_gas_limit at a gated height and determine_new_gas_limit_2 for
\* any backlog return, and return the input limit.
C4_EmptyHistogramNoop ==
    ( /\ \/ last.fn = "A" /\ last.height % 10 = 0
         \/ last.fn = "B"
      /\ WellFormed(last.histogram)
      /\ last.histogram.sample_count = 0 ) =>
        /\ Returned
        /\ last.outcome.value = last.gas_limit
        /\ gas_limit = last.gas_limit

\* C4's case: determine_new_gas_limit at a gated height on the empty histogram,
\* from a limit an adjustment would change.
C4_Witness ==
    /\ last.fn = "A"
    /\ last.height % 10 = 0
    /\ WellFormed(last.histogram)
    /\ last.histogram.sample_count = 0
    /\ ~BelowFactor(last.gas_limit)

\* C5: get_bucket fails with the "unsupported" panic for every requested bound
\* outside {0.05, 0.5, 1.0, 1.3}, and a bucket it returns has the requested
\* upper bound.
C5_UnsupportedBoundFails ==
    (last.fn = "get_bucket") =>
        /\ (last.upper_bound \notin SupportedBounds) =>
              /\ last.bucket.tag = "panic"
              /\ last.bucket.msg = MSG_UNSUPPORTED
        /\ (last.bucket.tag = "ok") =>
              last.bucket.bucket.upper_bound = last.upper_bound

\* The rule of Strategy A on the counts n (<= 0.5s), t (<= 1.0s) and total.
RuleA(new, old, n, t, total) ==
    IF t * 100 < 99 * total THEN IsDecreaseOf(new, old)
    ELSE IF n * 100 < 50 * total /\ t * 100 >= 99 * total THEN IsIncreaseOf(new, old)
    ELSE new = old

\* C6: determine_new_gas_limit at a multiple of 10 on a non-empty histogram
\* returns limit - limit/FACTOR if ratioTarget < 0.99, else limit + limit/FACTOR
\* if ratioNoop < 0.5 and ratioTarget >= 0.99, else the limit; with the spec's
\* scenarios 1 and 2 from the limit 1_000_000_000.
C6_StrategyARule ==
    ( /\ last.fn = "A"
      /\ last.height % 10 = 0
      /\ WellFormed(last.histogram)
      /\ last.histogram.sample_count > 0 ) =>
        /\ Returned
        /\ RuleA(last.outcome.value, last.gas_limit, Count(last.histogram, 5),
                 Count(last.histogram, 6), last.histogram.sample_count)
        /\ (last.gas_limit = LIMIT_SCENARIO /\ last.histogram = Samples(10, 40, 90, 95, 100))
              => last.outcome.value = U64FromInt(999000000)
        /\ (last.gas_limit = LIMIT_SCENARIO /\ last.histogram = Samples(10, 40, 99, 100, 100))
              => last.outcome.value = U64FromInt(1001000000)
        /\ (last.gas_limit = LIMIT_SCENARIO /\ last.histogram = Samples(20, 120, 199, 200, 200))
              => last.outcome.value = LIMIT_SCENARIO

\* The rule of Strategy C on the apply time d (ns) and the backlog g.
RuleC(new, old, d, g) ==
    IF d > 1000000000 THEN IsDecreaseOf(new, old)
    ELSE IF d > 500000000 /\ d <= 950000000 /\ g > 0 THEN IsIncreaseOf(new, old)
    ELSE new = old

\* The rule of Strategy A holds of every call whose increase fits in 64 bits.
RuleA_WhereIncreaseFits ==
    IncreaseFits(last.gas_limit) => C6_StrategyARule

\* C7: determine_new_gas_limit_3 returns a decrease by limit/FACTOR if the last
\* apply time is above 1.0s, an increase by limit/FACTOR if it is in
\* (0.5s, 0.95s] and the backlog is > 0, and the limit in every other case.
C7_StrategyCRule ==
    (last.fn = "C") =>
        /\ Returned
        /\ RuleC(last.outcome.value, last.gas_limit,
                 last.last_apply_time.secs * 1000000000 + last.last_apply_time.nanos,
                 last.delayed_receipt_gas)

\* The rule of Strategy C holds of every call whose increase fits in 64 bits.
RuleC_WhereIncreaseFits ==
    IncreaseFits(last.gas_limit) => C7_StrategyCRule

\* The rule of Strategy B on the counts t (<= 1.0s) and total and the backlog g.
RuleB(new, old, t, total, g) ==
    IF t * 100 < 99 * total THEN IsDecreaseOf(new, old)
    ELSE IF t * 100 > 99 * total /\ g > 0 THEN IsIncreaseOf(new, old)
    ELSE new = old

\* C8: determine_new_gas_limit_2 on a non-empty histogram returns a decrease by
\* limit/FACTOR if ratioTarget < 0.99, an increase by limit/FACTOR if
\* ratioTarget > 0.99 and the backlog is > 0, and the limit otherwise.
C8_StrategyBRule ==
    ( /\ last.fn = "B"
      /\ WellFormed(last.histogram)
      /\ last.histogram.sample_count > 0 ) =>
        /\ Returned
        /\ RuleB(last.outcome.value, last.gas_limit, Count(last.histogram, 6),
                 last.histogram.sample_count, last.delayed_receipt_gas)

\* The rule of Strategy B holds of every call whose increase fits in 64 bits.
RuleB_WhereIncreaseFits ==
    IncreaseFits(last.gas_limit) => C8_StrategyBRule

\* C9: every ratio a decision of Strategy A or B computes, while producers
\* append samples, has its count and its total from the one snapshot the
\* decision took: count <= total, and count(<= 0.5s) <= count(<= 1.0s).
C9_SnapshotConsistent ==
    /\ \A i \in 1..Len(last.ratios) :
          /\ last.ratios[i].num <= last.ratios[i].den
          /\ last.ratios[i].den = last.histogram.sample_count
    /\ (Len(last.ratios) = 2) =>
          /\ last.ratios[1].num = Count(last.histogram, 5)
          /\ last.ratios[2].num = Count(last.histogram, 6)
          /\ last.ratios[1].num <= last.ratios[2].num
    /\ (Len(last.ratios) = 1) => last.ratios[1].num = Count(last.histogram, 6)
    /\ (pc \in {"A51", "A53"}) => bucket_noop.cumulative_count <= histogram.sample_count
    /\ (pc \in {"A53", "B87"}) => bucket.cumulative_count <= histogram.sample_count

\* C9's case: a decision of Strategy A has computed its ratios from a snapshot
\* that the producers have since left behind.
C9_Witness ==
    /\ last.fn = "A"
    /\ Len(last.ratios) = 2
    /\ last.histogram.sample_count > 0
    /\ last.ratios[1].num < last.ratios[2].num
    /\ metric.sample_count > last.histogram.sample_count

\* C10: a strategy called with a limit below GAS_LIMIT_ADJUSTMENT_FACTOR returns
\* it unchanged, and a run started from a limit >= the factor never has a limit
\* below factor - 1.
C10_InertFloor ==
    /\ (IsDecision /\ Returned /\ BelowFactor(last.gas_limit)) =>
          /\ last.outcome.value = last.gas_limit
          /\ gas_limit = last.gas_limit
    /\ (~BelowFactor(start_limit)) =>
          ~U64Less(gas_limit, U64FromInt(GAS_LIMIT_ADJUSTMENT_FACTOR - 1))

=============================================================================
